---- MODULE Spec2Model ----
(***************************************************************************)
(* Model of the chat server of go_server/server.go: the users map, the     *)
(* mutex that guards it, and one goroutine per accepted connection         *)
(* running handleClientConnection.                                         *)
(*                                                                         *)
(* Strings are sequences of bytes: an ASCII byte is the one-character      *)
(* string, a byte from 0x80 on is its two hexadecimal digits ("C3").  A     *)
(* write to a connection is a record [fmt, args, ln]: the format string of *)
(* fmt.Fprint* call as written in the source, its string arguments, and    *)
(* whether the call appends a newline (Fprintln).                          *)
(***************************************************************************)
EXTENDS Integers, Sequences, FiniteSets, TLC

(***************************************************************************)
(* Connections and input lines                                             *)
(***************************************************************************)
Conns == {"c1", "c2", "c3"}

NoConn == "none"

LIST == <<"/", "L", "I", "S", "T">>

NICK == <<"/", "N", "I", "C", "K">>

MSG == <<"/", "M", "S", "G">>

AsciiLetters ==
  { "a", "b", "c", "d", "e", "f", "g", "h", "i", "j", "k", "l", "m",
    "n", "o", "p", "q", "r", "s", "t", "u", "v", "w", "x", "y", "z" } \cup
  { "A", "B", "C", "D", "E", "F", "G", "H", "I", "J", "K", "L", "M",
    "N", "O", "P", "Q", "R", "S", "T", "U", "V", "W", "X", "Y", "Z" }

Digits == {"0", "1", "2", "3", "4", "5", "6", "7", "8", "9"}

\* Lines a client may send (scanner.Text() of one scanned line).
Lines ==
  { LIST,
    NICK,
    NICK \o <<" ", "a">>,
    NICK \o <<" ", "b">>,
    MSG \o <<" ", "*", " ", "h">>,
    MSG \o <<" ", "a", ",", "b", " ", "h">> }

(***************************************************************************)
(* strings, unicode, regexp                                                *)
(***************************************************************************)
RECURSIVE TrimLeft(_, _)
TrimLeft(s, cut) ==
  IF s # <<>> /\ Head(s) = cut THEN TrimLeft(Tail(s), cut) ELSE s

RECURSIVE TrimRight(_, _)
TrimRight(s, cut) ==
  IF s # <<>> /\ s[Len(s)] = cut
  THEN TrimRight(SubSeq(s, 1, Len(s) - 1), cut)
  ELSE s

\* strings.Trim(s, " ")
Trim(s, cut) == TrimRight(TrimLeft(s, cut), cut)

\* strings.Index(s, sep) for a one-byte sep, 1-based; 0 when absent
Index(s, sep) ==
  IF \E i \in 1..Len(s) : s[i] = sep
  THEN CHOOSE i \in 1..Len(s) : s[i] = sep /\ \A j \in 1..(i - 1) : s[j] # sep
  ELSE 0

\* strings.SplitN(s, sep, n) for n > 0 and a one-byte sep
RECURSIVE SplitN(_, _, _)
SplitN(s, sep, n) ==
  IF n = 1 \/ Index(s, sep) = 0
  THEN <<s>>
  ELSE <<SubSeq(s, 1, Index(s, sep) - 1)>>
         \o SplitN(SubSeq(s, Index(s, sep) + 1, Len(s)), sep, n - 1)

\* strings.Split(s, sep) for a one-byte sep
RECURSIVE Split(_, _)
Split(s, sep) ==
  IF Index(s, sep) = 0
  THEN <<s>>
  ELSE <<SubSeq(s, 1, Index(s, sep) - 1)>>
         \o Split(SubSeq(s, Index(s, sep) + 1, Len(s)), sep)

\* The bytes from 0x80 on that, converted to a rune (U+0080 to U+00FF), are letters.
Latin1Letters ==
  { "AA", "B5", "BA", "C0", "C1", "C2", "C3", "C4", "C5", "C6", "C7",
    "C8", "C9", "CA", "CB", "CC", "CD", "CE", "CF", "D0", "D1", "D2",
    "D3", "D4", "D5", "D6", "D8", "D9", "DA", "DB", "DC", "DD", "DE",
    "DF", "E0", "E1", "E2", "E3", "E4", "E5", "E6", "E7", "E8", "E9",
    "EA", "EB", "EC", "ED", "EE", "EF", "F0", "F1", "F2", "F3", "F4",
    "F5", "F6", "F8", "F9", "FA", "FB", "FC", "FD", "FE", "FF" }

\* unicode.IsLetter(rune(b)) for a byte b
IsLetter(ch) == ch \in AsciiLetters \cup Latin1Letters

\* validNicknamePattern.MatchString(s), the pattern ^[a-zA-Z0-9_]+$
MatchesNicknamePattern(s) ==
  /\ Len(s) >= 1
  /\ \A i \in 1..Len(s) : s[i] \in AsciiLetters \cup Digits \cup {"_"}

MinNickLen == 1

MaxNickLen == 10

validateNickname(nickname) ==
  LET sanitizedNickname == Trim(nickname, " ") IN
  IF Len(sanitizedNickname) < MinNickLen \/ Len(sanitizedNickname) > MaxNickLen
  THEN [ok |-> FALSE, msg |-> "Nickname must be between 1 and 10 characters"]
  ELSE IF ~IsLetter(sanitizedNickname[1])
  THEN [ok |-> FALSE, msg |-> "Nickname must start with a letter"]
  ELSE IF ~MatchesNicknamePattern(sanitizedNickname)
  THEN [ok |-> FALSE,
        msg |-> "Nickname can contain only letters, numbers, and underscores"]
  ELSE [ok |-> TRUE, msg |-> ""]

(***************************************************************************)
(* fmt                                                                     *)
(***************************************************************************)
Fprintln(text, args) == [fmt |-> text, args |-> args, ln |-> TRUE]

Fprintf(format, args) == [fmt |-> format, args |-> args, ln |-> FALSE]

Fprint(text, args) == [fmt |-> text, args |-> args, ln |-> FALSE]

(***************************************************************************)
(* State                                                                   *)
(***************************************************************************)
VARIABLES
  users,      \* ChatServer.users: connection -> nickname (a partial function)
  mutex,      \* ChatServer.mutex: the connection whose goroutine holds it, or NoConn
  pc,         \* where each connection's goroutine stands in handleClientConnection
  cmd,        \* the arguments and locals of the handler a goroutine is running
  iter,       \* entries the unlocked range of the departure broadcast, once begun,
              \* can still yield
  crashed,    \* the goroutine at which the runtime aborted the process, or NoConn
  out,        \* the writes of the last step, per target connection, in order
  ev,         \* the last step: who took it, what it was, how it accessed users, and
              \* the line it was handed
  held,       \* history: the nickname a connection held when its scan loop ended
  stay,       \* history: for a connection c that held a nickname when its scan loop
              \* ended, until c's entry is deleted, the peers registered without a
              \* break since then
  leftCount,  \* history: until c's entry is deleted, leftCount[c][d] = the number of
              \* "left the chat" lines of c written to d
  lostTo,     \* history: the connection that won the nickname a pending /NICK asks for
  stalled,    \* the connections whose peer has stopped reading, with the buffers of
              \* the connection full: a write to one of them does not return
  todo,       \* the writes the holder of the mutex has yet to make before its Unlock:
              \* a sequence of sets of writes [to, w], one set for each range over
              \* users (its writes come in the order the map yields the entries)
  acc         \* the writes of the critical section under way or ended by the last
              \* step, per target connection, in order

vars ==
  <<users, mutex, pc, cmd, iter, crashed, out, ev, held, stay, leftCount, lostTo,
    stalled, todo, acc>>

\* The writes of a step return: fmt.Fprint* returns once the connection has taken
\* the bytes, and blocks while the connection is stalled.
Delivered == \A d \in Conns : out'[d] # <<>> => d \notin stalled

NoOut == [d \in Conns |-> <<>>]

NoCmd ==
  [nick |-> <<>>, recipients |-> <<>>, message |-> <<>>, sender |-> <<>>, outcome |-> "",
   target |-> NoConn]

\* The writes ws, in order, as writes to the connection d.
Writes(d, ws) == {[to |-> d, w |-> ws[k]] : k \in DOMAIN ws}

\* The sets of writes still to make, those with nothing left dropped from the front.
RECURSIVE Norm(_)
Norm(stages) ==
  IF stages # <<>> /\ Head(stages) = {} THEN Norm(Tail(stages)) ELSE stages

\* What a step that is not part of a critical section leaves of acc.
AccAfter == IF mutex = NoConn THEN [d \in Conns |-> <<>>] ELSE acc

Event(c, op, access) ==
  [by |-> c, op |-> op, access |-> access, held |-> (mutex = c), line |-> <<>>]

\* The step in which handleUserCommands is handed a line.
Command(c, op, access, line) == [Event(c, op, access) EXCEPT !.line = line]

\* server.users[conn]: the zero value "" when conn has no entry
Lookup(u, conn) == IF conn \in DOMAIN u THEN u[conn] ELSE <<>>

\* users[conn] = nickname
SetUser(u, conn, nickname) ==
  [x \in DOMAIN u \cup {conn} |-> IF x = conn THEN nickname ELSE u[x]]

\* delete(users, conn)
DeleteUser(u, conn) == [x \in DOMAIN u \ {conn} |-> u[x]]

Init ==
  /\ users = [x \in {} |-> <<>>]
  /\ mutex = NoConn
  /\ pc = [c \in Conns |-> "scan"]
  /\ cmd = [c \in Conns |-> NoCmd]
  /\ iter = [c \in Conns |-> {}]
  /\ crashed = NoConn
  /\ out = NoOut
  /\ ev = [by |-> NoConn, op |-> "init", access |-> "none", held |-> FALSE,
           line |-> <<>>]
  /\ held = [c \in Conns |-> <<>>]
  /\ stay = [c \in Conns |-> {}]
  /\ leftCount = [c \in Conns |-> [d \in Conns |-> 0]]
  /\ lostTo = [c \in Conns |-> NoConn]
  /\ stalled = {}
  /\ todo = <<>>
  /\ acc = NoOut

(***************************************************************************)
(* handleUserCommands                                                      *)
(***************************************************************************)
\* The line as handleClientConnection hands it over, split as handleUserCommands does.
Args(line) == SplitN(Trim(line, " "), " ", 3)

\* Mutant of Dispatch: each command is taken with its exact number of tokens only.
DispatchExactArity(args) ==
  IF Len(args) = 1 /\ args[1] = LIST THEN "list"
  ELSE IF Len(args) = 2 /\ args[1] = NICK THEN "nick"
  ELSE IF Len(args) = 3 /\ args[1] = MSG THEN "msg"
  ELSE "invalid"

Dispatch(args) ==
  IF Len(args) >= 1 /\ args[1] = LIST THEN "list"
  ELSE IF Len(args) >= 2 /\ args[1] = NICK THEN "nick"
  ELSE IF Len(args) >= 3 /\ args[1] = MSG THEN "msg"
  ELSE "invalid"

\* Mutant of Holders: the range over the entries is left out.
HoldersScanSkipped(u, nickname) == {}

\* The connections whose entry holds the nickname (the range of handleNicknameCommand).
Holders(u, nickname) == {x \in DOMAIN u : u[x] = nickname}

\* Mutant of NickOutcomes: a held nickname is reported as taken without comparing
\* the holder with the requester.
NickOutcomesNoSelfCheck(u, conn, desiredNickname) ==
  IF Holders(u, desiredNickname) # {} THEN {"Taken"}
  ELSE IF conn \in DOMAIN u THEN {"Changed"} ELSE {"Registered"}

\* What handleNicknameCommand decides under the mutex; the range returns at the
\* first entry that holds the nickname, whichever the map yields first.
NickOutcomes(u, conn, desiredNickname) ==
  IF Holders(u, desiredNickname) # {}
  THEN {IF x = conn THEN "AlreadyThis" ELSE "Taken" : x \in Holders(u, desiredNickname)}
  ELSE IF conn \in DOMAIN u THEN {"Changed"} ELSE {"Registered"}

\* Another goroutine is at a write of the map: the delete of line 89 on a map that is
\* not empty, or the assignment of line 165, which follows every write of lines 157-162.
WriterActive(c) ==
  \E x \in Conns \ {c} :
    /\ mutex = x
    /\ \/ pc[x] = "del_cs" /\ DOMAIN users # {}
       \/ /\ pc[x] = "nick_wr"
          /\ todo = <<>>
          /\ cmd[x].outcome \in {"Registered", "Changed"}

\* A step of connection c that starts a new command or ends the session.
Ghosts(c) ==
  /\ lostTo' = [lostTo EXCEPT ![c] = NoConn]
  /\ acc' = AccAfter
  /\ UNCHANGED <<held, stay, leftCount, todo>>

ListCommand(c, line) ==
  /\ crashed = NoConn
  /\ pc[c] = "scan"
  /\ Dispatch(Args(line)) = "list"
  /\ pc' = [pc EXCEPT ![c] = "list_lock"]
  /\ out' = NoOut
  /\ ev' = Command(c, "command", "none", line)
  /\ Ghosts(c)
  /\ UNCHANGED <<users, mutex, cmd, iter, crashed, stalled>>

\* handleNicknameCommand up to the Lock: the validation and its reply.
handleNicknameCommand(c, desiredNickname) ==
  LET v == validateNickname(desiredNickname)
  IN IF ~v.ok
     THEN /\ out' = [NoOut EXCEPT ![c] = <<Fprintln(v.msg, <<>>)>>]
          /\ UNCHANGED <<pc, cmd>>
     ELSE /\ out' = NoOut
          /\ pc' = [pc EXCEPT ![c] = "nick_lock"]
          /\ cmd' = [cmd EXCEPT ![c] = [NoCmd EXCEPT !.nick = desiredNickname]]

NickCommand(c, line) ==
  /\ crashed = NoConn
  /\ pc[c] = "scan"
  /\ Dispatch(Args(line)) = "nick"
  /\ handleNicknameCommand(c, Args(line)[2])
  /\ Delivered
  /\ ev' = Command(c, "command", "none", line)
  /\ Ghosts(c)
  /\ UNCHANGED <<users, mutex, iter, crashed, stalled>>

MsgCommand(c, line) ==
  /\ crashed = NoConn
  /\ pc[c] = "scan"
  /\ Dispatch(Args(line)) = "msg"
  /\ LET parsedRecipients == Split(Args(line)[2], ",")
         message == Args(line)[3]
         senderNickname == Lookup(users, c)
     IN IF senderNickname = <<>>
        THEN /\ out' = [NoOut EXCEPT ![c] =
                  <<Fprintln("You must register a nickname before you can send a message",
                             <<>>)>>]
             /\ UNCHANGED <<pc, cmd>>
        ELSE /\ out' = NoOut
             /\ pc' = [pc EXCEPT ![c] =
                  IF Len(parsedRecipients) = 1 /\ parsedRecipients[1] = <<"*">>
                  THEN "sendall_lock" ELSE "sendto_lock"]
             /\ cmd' = [cmd EXCEPT ![c] =
                  [NoCmd EXCEPT !.recipients = parsedRecipients,
                                !.message = message,
                                !.sender = senderNickname]]
  /\ Delivered
  /\ ev' = Command(c, "msg", "read", line)
  /\ Ghosts(c)
  /\ UNCHANGED <<users, mutex, iter, crashed, stalled>>

InvalidCommand(c, line) ==
  /\ crashed = NoConn
  /\ pc[c] = "scan"
  /\ Dispatch(Args(line)) = "invalid"
  /\ out' = [NoOut EXCEPT ![c] = <<Fprintln("Invalid command", <<>>)>>]
  /\ Delivered
  /\ ev' = Command(c, "command", "none", line)
  /\ Ghosts(c)
  /\ UNCHANGED <<users, mutex, pc, cmd, iter, crashed, stalled>>

(***************************************************************************)
(* The mutex                                                               *)
(***************************************************************************)
LockPoints == {"list_lock", "nick_lock", "sendall_lock", "sendto_lock", "del_lock"}

Section(p) ==
  CASE p = "list_lock" -> "list_cs"
    [] p = "nick_lock" -> "nick_cs"
    [] p = "sendall_lock" -> "sendall_cs"
    [] p = "sendto_lock" -> "sendto_cs"
    [] p = "del_lock" -> "del_cs"

\* server.mutex.Lock(): blocks while another goroutine holds the mutex
Lock(c) ==
  /\ crashed = NoConn
  /\ pc[c] \in LockPoints
  /\ mutex = NoConn
  /\ mutex' = c
  /\ pc' = [pc EXCEPT ![c] = Section(pc[c])]
  /\ out' = NoOut
  /\ acc' = NoOut
  /\ ev' = Event(c, "lock", "none")
  /\ UNCHANGED <<users, cmd, iter, crashed, held, stay, leftCount, lostTo, stalled, todo>>

\* One blocking write of the goroutine that holds the mutex: the next write of the
\* handler, taken from the first stage that still has one.  A range yields its entries
\* in any order, so any write of the stage may be the next.
Perform(stages) ==
  LET t == Norm(stages)
  IN IF t = <<>>
     THEN /\ out' = NoOut
          /\ acc' = acc
          /\ todo' = <<>>
     ELSE \E x \in Head(t) :
            /\ out' = [NoOut EXCEPT ![x.to] = <<x.w>>]
            /\ acc' = [acc EXCEPT ![x.to] = @ \o <<x.w>>]
            /\ todo' = Norm(<<Head(t) \ {x}>> \o Tail(t))

\* The program points between two writes of a handler that holds the mutex.
WritePoints == {"list_wr", "nick_wr", "sendall_wr", "sendto_wr"}

\* The next write of a handler that holds the mutex.
WriteNext(c) ==
  /\ crashed = NoConn
  /\ pc[c] \in WritePoints
  /\ mutex = c
  /\ todo # <<>>
  /\ Perform(todo)
  /\ Delivered
  /\ ev' = Event(c, "write", "read")
  /\ UNCHANGED <<users, mutex, pc, cmd, iter, crashed, held, stay, leftCount, lostTo, stalled>>

(***************************************************************************)
(* handleListCommand                                                       *)
(***************************************************************************)
\* The writes of handleListCommand over the map u: the header, one write for each
\* entry the range yields, and the end of the line.
\* Fprint(conn, nickname, " ") is written as the format "%s ".
ListStages(c, u) ==
  << {[to |-> c, w |-> Fprint("Current users: ", <<>>)]},
     {[to |-> c, w |-> Fprint("%s ", <<u[x]>>)] : x \in DOMAIN u},
     {[to |-> c, w |-> Fprintln("", <<>>)]} >>

\* The first write of handleListCommand, with the mutex held: the line it starts is
\* ended by the last write only.
ListBegin(c) ==
  /\ crashed = NoConn
  /\ pc[c] = "list_cs"
  /\ mutex = c
  /\ Perform(ListStages(c, users))
  /\ pc' = [pc EXCEPT ![c] = "list_wr"]
  /\ Delivered
  /\ ev' = Event(c, "begin", "none")
  /\ UNCHANGED <<users, mutex, cmd, iter, crashed, held, stay, leftCount, lostTo, stalled>>

\* The return of handleListCommand: the deferred Unlock.
ListCS(c) ==
  /\ crashed = NoConn
  /\ pc[c] = "list_wr"
  /\ mutex = c
  /\ todo = <<>>
  /\ mutex' = NoConn
  /\ pc' = [pc EXCEPT ![c] = "scan"]
  /\ out' = NoOut
  /\ ev' = Event(c, "list", "none")
  /\ UNCHANGED <<users, cmd, iter, crashed, held, stay, leftCount, lostTo, stalled, todo, acc>>

(***************************************************************************)
(* broadcastMsg                                                            *)
(***************************************************************************)
UserJoinsServer == 0

UserChangesNickname == 1

UserLeavesServer == 2

\* The message broadcastMsg formats for a broadcast type and its components.
BroadcastMessage(broadcastType, components) ==
  CASE broadcastType = UserJoinsServer ->
         [fmt |-> "%s joined the chat", args |-> <<components[1]>>]
    [] broadcastType = UserLeavesServer ->
         [fmt |-> "%s left the chat", args |-> <<components[1]>>]
    [] broadcastType = UserChangesNickname ->
         [fmt |-> "%s changed nickname to %s", args |-> <<components[1], components[2]>>]

\* The body of broadcastMsg's range for one entry.
BroadcastWrites(conn, excludeConn, message) ==
  IF conn # excludeConn THEN <<Fprintln(message.fmt, message.args)>> ELSE <<>>

\* broadcastMsg run to completion over the map u (the caller holds the mutex).
BroadcastMsg(u, broadcastType, excludeConn, components) ==
  [d \in Conns |->
     IF d \in DOMAIN u
     THEN BroadcastWrites(d, excludeConn, BroadcastMessage(broadcastType, components))
     ELSE <<>>]

(***************************************************************************)
(* handleNicknameCommand, from the Lock on                                 *)
(***************************************************************************)
\* The line handleNicknameCommand writes to the requester.
NickReply(outcome, currentNickname, desiredNickname) ==
  CASE outcome = "AlreadyThis" ->
         Fprintf("You're already registered as %s\n", <<desiredNickname>>)
    [] outcome = "Taken" ->
         Fprintf("%s already registered\n", <<desiredNickname>>)
    [] outcome = "Changed" ->
         Fprintf("You changed your nickname from %s to %s\n",
                 <<currentNickname, desiredNickname>>)
    [] outcome = "Registered" ->
         Fprintf("Nickname registered as %s\n", <<desiredNickname>>)

\* Mutant of NickBroadcast: the change is announced with the entry as it is after
\* the write.
NickBroadcastAfterWrite(u, outcome, conn, desiredNickname) ==
  CASE outcome = "Changed" ->
         BroadcastMsg(u, UserChangesNickname, conn, <<desiredNickname, desiredNickname>>)
    [] outcome = "Registered" ->
         BroadcastMsg(u, UserJoinsServer, conn, <<desiredNickname>>)
    [] OTHER -> NoOut

\* The broadcast of handleNicknameCommand for an outcome.
NickBroadcast(u, outcome, conn, desiredNickname) ==
  CASE outcome = "Changed" ->
         BroadcastMsg(u, UserChangesNickname, conn, <<u[conn], desiredNickname>>)
    [] outcome = "Registered" ->
         BroadcastMsg(u, UserJoinsServer, conn, <<desiredNickname>>)
    [] OTHER -> NoOut

\* Mutant of NickCommit: the entry is written whatever the scan found.
NickCommitAlways(u, outcome, conn, desiredNickname) == SetUser(u, conn, desiredNickname)

\* Mutant of NickCommit: the entry is written on a change only.
NickCommitChangeOnly(u, outcome, conn, desiredNickname) ==
  IF outcome = "Changed" THEN SetUser(u, conn, desiredNickname) ELSE u

\* The map after handleNicknameCommand.
NickCommit(u, outcome, conn, desiredNickname) ==
  IF outcome \in {"Changed", "Registered"} THEN SetUser(u, conn, desiredNickname) ELSE u

\* The writes of handleNicknameCommand for an outcome of the scan: the reply to the
\* requester, then the writes of broadcastMsg's range.
NickStages(u, outcome, c, desiredNickname) ==
  LET bcast == NickBroadcast(u, outcome, c, desiredNickname)
  IN << {[to |-> c, w |-> NickReply(outcome, Lookup(u, c), desiredNickname)]},
        UNION {Writes(d, bcast[d]) : d \in Conns} >>

\* The scan of lines 145-154 and the reply of lines 148-161, with the mutex held.
NickBegin(c) ==
  /\ crashed = NoConn
  /\ pc[c] = "nick_cs"
  /\ mutex = c
  /\ \E outcome \in NickOutcomes(users, c, cmd[c].nick) :
       /\ cmd' = [cmd EXCEPT ![c].outcome = outcome]
       /\ Perform(NickStages(users, outcome, c, cmd[c].nick))
  /\ pc' = [pc EXCEPT ![c] = "nick_wr"]
  /\ Delivered
  /\ ev' = Event(c, "begin", "read")
  /\ UNCHANGED <<users, mutex, iter, crashed, held, stay, leftCount, lostTo, stalled>>

\* The end of handleNicknameCommand: the return after a refusal, or the map write of
\* line 165 after a success; then the deferred Unlock.
NickCS(c) ==
  /\ crashed = NoConn
  /\ pc[c] = "nick_wr"
  /\ mutex = c
  /\ todo = <<>>
  /\ LET outcome == cmd[c].outcome
         desiredNickname == cmd[c].nick
         success == outcome \in {"Changed", "Registered"}
     IN /\ users' = NickCommit(users, outcome, c, desiredNickname)
        \* a range under way in another goroutine may or may not yield a new entry
        /\ IF outcome = "Registered"
           THEN \E S \in SUBSET {x \in Conns : pc[x] \in {"bcast_leave", "bcast_write"}} :
                  iter' = [x \in Conns |-> IF x \in S THEN iter[x] \cup {c} ELSE iter[x]]
           ELSE UNCHANGED iter
        /\ lostTo' = [d \in Conns |->
               IF success /\ d # c /\ pc[d] = "nick_lock" /\ cmd[d].nick = desiredNickname
               THEN c
               ELSE IF success /\ lostTo[d] = c THEN NoConn
               ELSE lostTo[d]]
  /\ mutex' = NoConn
  /\ pc' = [pc EXCEPT ![c] = "scan"]
  /\ cmd' = [cmd EXCEPT ![c] = NoCmd]
  /\ out' = NoOut
  /\ ev' = Event(c, "nick", IF users' = users THEN "none" ELSE "write")
  /\ UNCHANGED <<crashed, held, stay, leftCount, stalled, todo, acc>>

(***************************************************************************)
(* sendToAllUsers, sendToSpecificUsers, from the Lock on                   *)
(***************************************************************************)
ChatLine(senderNickname, message) ==
  Fprintf("%s said: %s\n", <<senderNickname, message>>)

\* The body of sendToAllUsers' range for one entry.
SendToAllWrites(connection, conn, senderNickname, message) ==
  IF connection # conn THEN <<ChatLine(senderNickname, message)>> ELSE <<>>

\* Mutant of SendToSpecificWrites: the sender is not excluded.
SendToSpecificWritesToSelf(receiver, receiverConnection, receiverNickname, conn, senderNickname, message) ==
  IF receiverNickname = receiver THEN <<ChatLine(senderNickname, message)>> ELSE <<>>

\* The body of sendToSpecificUsers' inner range for one receiver and one entry.
SendToSpecificWrites(receiver, receiverConnection, receiverNickname, conn, senderNickname, message) ==
  IF receiverNickname = receiver /\ conn # receiverConnection
  THEN <<ChatLine(senderNickname, message)>>
  ELSE <<>>

\* The writes of sendToAllUsers over the map u: one range.
SendAllStages(u, c, senderNickname, message) ==
  << UNION {Writes(d, SendToAllWrites(d, c, senderNickname, message)) : d \in DOMAIN u} >>

\* The writes of sendToSpecificUsers over the map u: one range for each receiver, in
\* the order of the list.
SendToStages(u, c, recipients, senderNickname, message) ==
  [i \in 1..Len(recipients) |->
     UNION {Writes(d, SendToSpecificWrites(recipients[i], d, u[d], c,
                                           senderNickname, message)) : d \in DOMAIN u}]

\* sendToAllUsers up to its first write, with the mutex held.
SendAllBegin(c) ==
  /\ crashed = NoConn
  /\ pc[c] = "sendall_cs"
  /\ mutex = c
  /\ Perform(SendAllStages(users, c, cmd[c].sender, cmd[c].message))
  /\ pc' = [pc EXCEPT ![c] = "sendall_wr"]
  /\ Delivered
  /\ ev' = Event(c, "begin", "read")
  /\ UNCHANGED <<users, mutex, cmd, iter, crashed, held, stay, leftCount, lostTo, stalled>>

\* The return of sendToAllUsers: the deferred Unlock.
SendAllCS(c) ==
  /\ crashed = NoConn
  /\ pc[c] = "sendall_wr"
  /\ mutex = c
  /\ todo = <<>>
  /\ mutex' = NoConn
  /\ pc' = [pc EXCEPT ![c] = "scan"]
  /\ cmd' = [cmd EXCEPT ![c] = NoCmd]
  /\ out' = NoOut
  /\ ev' = Event(c, "sendall", "none")
  /\ UNCHANGED <<users, iter, crashed, held, stay, leftCount, lostTo, stalled, todo, acc>>

\* sendToSpecificUsers up to its first write, with the mutex held.
SendToBegin(c) ==
  /\ crashed = NoConn
  /\ pc[c] = "sendto_cs"
  /\ mutex = c
  /\ Perform(SendToStages(users, c, cmd[c].recipients, cmd[c].sender, cmd[c].message))
  /\ pc' = [pc EXCEPT ![c] = "sendto_wr"]
  /\ Delivered
  /\ ev' = Event(c, "begin", "read")
  /\ UNCHANGED <<users, mutex, cmd, iter, crashed, held, stay, leftCount, lostTo, stalled>>

\* The return of sendToSpecificUsers: the deferred Unlock.
SendToCS(c) ==
  /\ crashed = NoConn
  /\ pc[c] = "sendto_wr"
  /\ mutex = c
  /\ todo = <<>>
  /\ mutex' = NoConn
  /\ pc' = [pc EXCEPT ![c] = "scan"]
  /\ cmd' = [cmd EXCEPT ![c] = NoCmd]
  /\ out' = NoOut
  /\ ev' = Event(c, "sendto", "none")
  /\ UNCHANGED <<users, iter, crashed, held, stay, leftCount, lostTo, stalled, todo, acc>>

(***************************************************************************)
(* handleClientConnection, after the scan loop                             *)
(***************************************************************************)
\* scanner.Scan() returns false with scanner.Err() == nil: the argument users[conn]
\* of the departure broadcast is read without the mutex (line 85).
CleanClose(c) ==
  /\ crashed = NoConn
  /\ pc[c] = "scan"
  /\ cmd' = [cmd EXCEPT ![c] = [NoCmd EXCEPT !.nick = Lookup(users, c)]]
  /\ pc' = [pc EXCEPT ![c] = "bcast_init"]
  /\ out' = NoOut
  /\ ev' = Event(c, "close", "read")
  /\ held' = [held EXCEPT ![c] = Lookup(users, c)]
  /\ stay' = [stay EXCEPT ![c] = IF Lookup(users, c) = <<>> THEN {}
                                 ELSE DOMAIN users \ {c}]
  /\ lostTo' = [lostTo EXCEPT ![c] = NoConn]
  /\ acc' = AccAfter
  /\ UNCHANGED <<users, mutex, iter, crashed, leftCount, stalled, todo>>

\* scanner.Scan() returns false with scanner.Err() != nil: no broadcast.
ReadError(c) ==
  /\ crashed = NoConn
  /\ pc[c] = "scan"
  /\ pc' = [pc EXCEPT ![c] = "del_lock"]
  /\ out' = NoOut
  /\ ev' = Event(c, "readerr", "none")
  /\ held' = [held EXCEPT ![c] = Lookup(users, c)]
  /\ stay' = [stay EXCEPT ![c] = IF Lookup(users, c) = <<>> THEN {}
                                 ELSE DOMAIN users \ {c}]
  /\ lostTo' = [lostTo EXCEPT ![c] = NoConn]
  /\ acc' = AccAfter
  /\ UNCHANGED <<users, mutex, cmd, iter, crashed, leftCount, stalled, todo>>

\* The program points at which the range of the departure broadcast asks the map
\* for its next entry (line 261): before the first entry and after each iteration.
RangePoints == {"bcast_init", "bcast_leave"}

\* The iterator call of the range of broadcastMsg(UserLeavesServer, conn, users[conn])
\* (line 261), without the mutex: it yields an entry of the map the range has not
\* yielded yet, or ends the range.  For the leaver's own entry the body of the range
\* does nothing (line 262) and the next iterator call is the next step.
LeaveNext(c) ==
  /\ crashed = NoConn
  /\ pc[c] \in RangePoints
  /\ LET rest == IF pc[c] = "bcast_init" THEN DOMAIN users ELSE iter[c]
     IN IF rest = {}
        THEN /\ pc' = [pc EXCEPT ![c] = "del_lock"]
             /\ cmd' = [cmd EXCEPT ![c] = NoCmd]
             /\ iter' = [iter EXCEPT ![c] = {}]
        ELSE \E d \in rest :
               /\ pc' = [pc EXCEPT ![c] = IF d = c THEN "bcast_leave" ELSE "bcast_write"]
               /\ cmd' = [cmd EXCEPT ![c].target = IF d = c THEN NoConn ELSE d]
               /\ iter' = [iter EXCEPT ![c] = rest \ {d}]
  /\ out' = NoOut
  /\ ev' = Event(c, "next", "read")
  /\ acc' = AccAfter
  /\ UNCHANGED <<users, mutex, crashed, held, stay, leftCount, lostTo, stalled, todo>>

\* The body of the range for the entry yielded (lines 262-264): the write to it.  A
\* write to a connection that was closed returns an error and delivers nothing.
LeaveVisit(c) ==
  /\ crashed = NoConn
  /\ pc[c] = "bcast_write"
  /\ LET d == cmd[c].target
         w == IF pc[d] = "closed"
              THEN <<>>
              ELSE BroadcastWrites(d, c,
                                   BroadcastMessage(UserLeavesServer, <<cmd[c].nick>>))
     IN /\ out' = [NoOut EXCEPT ![d] = w]
        /\ leftCount' = [leftCount EXCEPT ![c][d] = @ + Len(w)]
  /\ pc' = [pc EXCEPT ![c] = "bcast_leave"]
  /\ cmd' = [cmd EXCEPT ![c].target = NoConn]
  /\ Delivered
  /\ ev' = Event(c, "visit", "none")
  /\ acc' = AccAfter
  /\ UNCHANGED <<users, mutex, iter, crashed, held, stay, lostTo, stalled, todo>>

\* delete(server.users, conn); server.mutex.Unlock(): the connection is still open.
\* A range under way in another goroutine will not yield the deleted entry any more;
\* an entry it has yielded already is still written to.
DeleteCS(c) ==
  /\ crashed = NoConn
  /\ pc[c] = "del_cs"
  /\ mutex = c
  /\ users' = DeleteUser(users, c)
  /\ iter' = [x \in Conns |-> iter[x] \ {c}]
  /\ pc' = [pc EXCEPT ![c] = "returning"]
  /\ mutex' = NoConn
  /\ out' = NoOut
  /\ ev' = Event(c, "delete", "write")
  /\ stay' = [x \in Conns |-> IF x = c THEN {} ELSE stay[x] \ {c}]
  /\ leftCount' = [leftCount EXCEPT ![c] = [d \in Conns |-> 0]]
  /\ lostTo' = [d \in Conns |-> IF lostTo[d] = c THEN NoConn ELSE lostTo[d]]
  /\ UNCHANGED <<cmd, crashed, held, stalled, todo, acc>>

\* The return of handleClientConnection: the deferred conn.Close().  A write to the
\* connection that another goroutine is blocked in returns with an error.
Close(c) ==
  /\ crashed = NoConn
  /\ pc[c] = "returning"
  /\ pc' = [pc EXCEPT ![c] = "closed"]
  /\ stalled' = stalled \ {c}
  /\ out' = NoOut
  /\ acc' = AccAfter
  /\ ev' = Event(c, "return", "none")
  /\ UNCHANGED <<users, mutex, cmd, iter, crashed, held, stay, leftCount, lostTo, todo>>

\* The unlocked accesses of handleMessageCommand and of the departure broadcast race
\* with the map writes of other goroutines.  A read or range that overlaps a write
\* may proceed or may make the runtime abort the process
\* ("fatal error: concurrent map read and map write", "concurrent map iteration and
\* map write"); this is the abort.
MapFault(c, site) ==
  /\ crashed = NoConn
  /\ WriterActive(c)
  /\ \/ site = "msg" /\ pc[c] = "scan" /\ \E line \in Lines : Dispatch(Args(line)) = "msg"
     \/ site = "close" /\ pc[c] = "scan"
     \/ site = "visit" /\ pc[c] \in RangePoints
  /\ crashed' = c
  /\ out' = NoOut
  /\ ev' = Event(c, site, "fault")
  /\ UNCHANGED <<users, mutex, pc, cmd, iter, held, stay, leftCount, lostTo, stalled, todo, acc>>

\* How many peers may be stalled at a time.
MaxStalled == 1

\* The peer of a connection stops reading and the buffers of the connection fill up.
Stall(d) ==
  /\ crashed = NoConn
  /\ pc[d] # "closed"
  /\ d \notin stalled
  /\ Cardinality(stalled) < MaxStalled
  /\ stalled' = stalled \cup {d}
  /\ out' = NoOut
  /\ ev' = Event(d, "stall", "none")
  /\ acc' = AccAfter
  /\ UNCHANGED <<users, mutex, pc, cmd, iter, crashed, held, stay, leftCount, lostTo, todo>>

\* The peer reads again.
Drain(d) ==
  /\ crashed = NoConn
  /\ d \in stalled
  /\ stalled' = stalled \ {d}
  /\ out' = NoOut
  /\ ev' = Event(d, "drain", "none")
  /\ acc' = AccAfter
  /\ UNCHANGED <<users, mutex, pc, cmd, iter, crashed, held, stay, leftCount, lostTo, todo>>

Next ==
  \E c \in Conns :
    \/ \E line \in Lines :
         \/ ListCommand(c, line)
         \/ NickCommand(c, line)
         \/ MsgCommand(c, line)
         \/ InvalidCommand(c, line)
    \/ Lock(c)
    \/ ListBegin(c)
    \/ NickBegin(c)
    \/ SendAllBegin(c)
    \/ SendToBegin(c)
    \/ WriteNext(c)
    \/ ListCS(c)
    \/ NickCS(c)
    \/ SendAllCS(c)
    \/ SendToCS(c)
    \/ CleanClose(c)
    \/ ReadError(c)
    \/ LeaveNext(c)
    \/ LeaveVisit(c)
    \/ DeleteCS(c)
    \/ Close(c)
    \/ \E site \in {"msg", "close", "visit"} : MapFault(c, site)

Spec == Init /\ [][Next]_vars

(***************************************************************************)
(* Properties                                                              *)
(***************************************************************************)
\* The step in which connection c ends the critical section of handleNicknameCommand:
\* acc holds what the critical section wrote.
NickStep(c) == pc[c] = "nick_wr" /\ pc'[c] = "scan"

SuccessReplies(u, c, n) ==
  {NickReply("Registered", <<>>, n), NickReply("Changed", Lookup(u, c), n)}

SystemFormats == {"%s joined the chat", "%s changed nickname to %s", "%s left the chat"}

ChatFormat == "%s said: %s\n"

\* C1: in every reachable state no two distinct connections of the registry hold
\* the same nickname.
C1_NicknameUniqueness ==
  \A c, d \in DOMAIN users : c # d => users[c] # users[d]

\* C1 witness: two connections are registered and a third /NICK for a held nickname
\* has just been turned down.
C1_Witness ==
  /\ ev.op = "nick"
  /\ Cardinality(DOMAIN users) >= 2
  /\ \E n \in {<<"a">>, <<"b">>} :
       /\ acc[ev.by] = <<NickReply("Taken", <<>>, n)>>
       /\ Holders(users, n) # {}

\* C2: when two connections have a /NICK for the same valid, unheld nickname in
\* flight at once, the one whose critical section runs first gets the success reply
\* and the entry while the other's registry state stays as it was; the other, whose
\* critical section runs while the winner still holds the nickname, gets
\* "<name> already registered" and the registry is unchanged.
C2_AtMostOneWinner ==
  [][\A c \in Conns :
       NickStep(c) =>
         LET n == cmd[c].nick
             rivals == {d \in Conns \ {c} : pc[d] = "nick_lock" /\ cmd[d].nick = n}
         IN /\ (rivals # {} /\ Holders(users, n) = {}) =>
                 /\ c \in DOMAIN users'
                 /\ users'[c] = n
                 /\ Len(acc'[c]) >= 1
                 /\ acc'[c][1] \in SuccessReplies(users, c, n)
                 /\ \A d \in rivals :
                      /\ Lookup(users', d) = Lookup(users, d)
                      /\ (d \in DOMAIN users') = (d \in DOMAIN users)
                      /\ pc'[d] = "nick_lock"
                      /\ lostTo'[d] = c
            /\ lostTo[c] # NoConn =>
                 /\ Lookup(users, lostTo[c]) = n
                 /\ acc' = [NoOut EXCEPT ![c] = <<NickReply("Taken", <<>>, n)>>]
                 /\ users' = users
    ]_vars

\* C2 witness: a connection whose /NICK was in flight together with the winner's has
\* just been told the nickname is taken, and the winner holds it.
C2_Witness ==
  \E c \in Conns, n \in {<<"a">>, <<"b">>} :
    /\ ev.op = "nick"
    /\ ev.by = c
    /\ lostTo[c] # NoConn
    /\ Lookup(users, lostTo[c]) = n
    /\ c \notin DOMAIN users
    /\ acc[c] = <<NickReply("Taken", <<>>, n)>>

\* C3: no step of connection c writes a chat line or a system notice to c itself:
\* the fan-out of /MSG (wildcard or a list naming c) and the Joined, ChangedNickname
\* and Left broadcasts that c triggers leave c out.
C3_OriginatorExcluded ==
  ev.by \in Conns =>
    \A i \in 1..Len(out[ev.by]) :
      out[ev.by][i].fmt \notin SystemFormats \cup {ChatFormat}

\* C3 witness: the connection registered as "a" has just sent to the list a,b; the
\* holder of "b" got the chat line and the sender got nothing.
C3_Witness ==
  /\ ev.op = "sendto"
  /\ Lookup(users, ev.by) = <<"a">>
  /\ acc[ev.by] = <<>>
  /\ \E d \in DOMAIN users \ {ev.by} :
       /\ users[d] = <<"b">>
       /\ acc[d] = <<ChatLine(<<"a">>, <<"h">>)>>

\* C4: when the session of a connection that holds a nickname ends, on either
\* termination path, every peer registered from the end of the scan loop on has been
\* sent "<nickname> left the chat" by the time the entry is deleted, and the entry
\* is gone once the handler has returned.
C4_BothPathsNotify ==
  \A c \in Conns :
    /\ (pc[c] = "del_cs" /\ held[c] # <<>>) =>
         \A d \in stay[c] : leftCount[c][d] >= 1
    /\ pc[c] = "closed" => c \notin DOMAIN users

\* C5: when the session of a connection that never registered a nickname ends, no
\* "... left the chat" line is written to any connection.
C5_NoNoticeForUnregistered ==
  \A c, d \in Conns : leftCount[c][d] > 0 => held[c] # <<>>

\* C6: by the time any connection has been sent "<n> left the chat" for a departing
\* connection, that connection's entry is gone from the registry.
C6_GoneBeforeNotice ==
  \A c, d \in Conns : leftCount[c][d] > 0 => c \notin DOMAIN users

\* C7: every access to the registry map (read, range or write) is made by a goroutine
\* that holds the registry mutex.
C7_MutualExclusion ==
  ev.access # "none" => ev.held

\* The session of connection c has ended: its scan loop is over, on either termination
\* path, and its command loop is no longer serviced.
SessionEnded(c) ==
  pc[c] \in {"bcast_init", "bcast_leave", "bcast_write", "del_lock", "del_cs",
             "returning", "closed"}

\* C8: once the session of a connection has ended, on either termination path, the
\* registry has no entry for it in any later state, so that every key of the registry
\* is a connection whose command loop is still serviced; and a /NICK of another
\* connection for the nickname it held at the end, which no third connection holds,
\* succeeds.
C8_DepartureCleanup ==
  [][/\ \A c \in Conns : SessionEnded(c)' => c \notin DOMAIN users'
     /\ \A c, d \in Conns :
          (/\ SessionEnded(c)
           /\ held[c] # <<>>
           /\ d # c
           /\ NickStep(d)
           /\ cmd[d].nick = held[c]
           /\ Holders(users, held[c]) \ {c} = {}) =>
            /\ d \in DOMAIN users'
            /\ users'[d] = held[c]
            /\ Len(acc'[d]) >= 1
            /\ acc'[d][1] \in SuccessReplies(users, d, held[c])
    ]_vars

\* C8 from the return of the handler on: once handleClientConnection has deleted the
\* entry and returned, the registry has no entry for the connection in any later
\* state, and a /NICK of another connection for the nickname it held at the end,
\* which nobody holds, succeeds.
CleanupAfterReturn ==
  [][/\ \A c \in Conns : pc'[c] \in {"returning", "closed"} => c \notin DOMAIN users'
     /\ \A c, d \in Conns :
          (/\ pc[c] \in {"returning", "closed"}
           /\ held[c] # <<>>
           /\ NickStep(d)
           /\ cmd[d].nick = held[c]
           /\ Holders(users, held[c]) = {}) =>
            /\ d \in DOMAIN users'
            /\ users'[d] = held[c]
            /\ Len(acc'[d]) >= 1
            /\ acc'[d][1] \in SuccessReplies(users, d, held[c])
    ]_vars

\* C9: a /NICK for the nickname the requester already holds writes "You're already
\* registered as <name>" to the requester and nothing to anyone else, and leaves the
\* registry unchanged.
C9_IdempotentSelfRegistration ==
  [][\A c \in Conns :
       (NickStep(c) /\ c \in DOMAIN users /\ users[c] = cmd[c].nick) =>
         /\ acc' = [NoOut EXCEPT ![c] =
              <<Fprintf("You're already registered as %s\n", <<cmd[c].nick>>)>>]
         /\ users' = users
    ]_vars

\* C9 witness: a registered connection has just been told it is already registered
\* under the nickname it holds, while another connection is registered too.
C9_Witness ==
  /\ ev.op = "nick"
  /\ ev.by \in DOMAIN users
  /\ Cardinality(DOMAIN users) >= 2
  /\ acc[ev.by] = <<NickReply("AlreadyThis", <<>>, users[ev.by])>>

\* C10: a /MSG from a connection that has no registry entry writes exactly "You must
\* register a nickname before you can send a message" to that connection and nothing
\* to any other connection, and leaves the registry unchanged.
C10_UnregisteredSenderRejected ==
  [][\A c \in Conns :
       (pc[c] = "scan" /\ c \notin DOMAIN users /\ ev'.by = c /\ ev'.op = "msg") =>
         /\ out' = [NoOut EXCEPT ![c] =
              <<Fprintln("You must register a nickname before you can send a message",
                         <<>>)>>]
         /\ users' = users
    ]_vars

\* The step in which connection c ends the critical section of sendToAllUsers or of
\* sendToSpecificUsers: acc holds what the critical section wrote.
SendStep(c) == pc[c] \in {"sendall_wr", "sendto_wr"} /\ pc'[c] = "scan"

\* The connections that were written the chat line of sender nickname s and message m to.
ChatReceivers(o, s, m) == {d \in Conns : \E i \in 1..Len(o[d]) : o[d][i] = ChatLine(s, m)}

\* The names of a parsed recipient list.
Named(recipients) == {recipients[i] : i \in 1..Len(recipients)}

\* C11: a /MSG of a registered sender S is carried through to the fan-out without any
\* line being written at the lookup; the fan-out writes the chat line to exactly the
\* registered connections other than S for "*", and to exactly the registered
\* connections other than S whose nickname is in the list otherwise; it writes nothing
\* else to anyone, so a name nobody holds yields no line and no error to S.
C11_RecipientResolution ==
  [][\A c \in Conns :
       /\ (pc[c] = "scan" /\ c \in DOMAIN users /\ ev'.by = c /\ ev'.op = "msg") =>
            /\ pc'[c] \in {"sendall_lock", "sendto_lock"}
            /\ cmd'[c].sender = users[c]
            /\ out' = NoOut
       /\ SendStep(c) =>
            LET expected ==
                  IF pc[c] = "sendall_wr"
                  THEN DOMAIN users \ {c}
                  ELSE {d \in DOMAIN users \ {c} : users[d] \in Named(cmd[c].recipients)}
            IN /\ ChatReceivers(acc', cmd[c].sender, cmd[c].message) = expected
               /\ \A d \in Conns \ expected : acc'[d] = <<>>
               /\ \A d \in Conns : \A i \in 1..Len(acc'[d]) :
                    acc'[d][i] = ChatLine(cmd[c].sender, cmd[c].message)
    ]_vars

\* The fan-out part of C11 alone: what the critical sections of sendToAllUsers and
\* sendToSpecificUsers write.
FanOutResolution ==
  [][\A c \in Conns :
       SendStep(c) =>
         LET expected ==
               IF pc[c] = "sendall_wr"
               THEN DOMAIN users \ {c}
               ELSE {d \in DOMAIN users \ {c} : users[d] \in Named(cmd[c].recipients)}
         IN /\ ChatReceivers(acc', cmd[c].sender, cmd[c].message) = expected
            /\ \A d \in Conns \ expected : acc'[d] = <<>>
    ]_vars

\* C12: a /NICK for a valid nickname that a different connection holds writes
\* "<name> already registered" to the requester and nothing to any other connection,
\* and leaves the registry unchanged.
C12_TakenLeavesRegistryAlone ==
  [][\A c \in Conns :
       (NickStep(c) /\ Holders(users, cmd[c].nick) \ {c} # {}) =>
         /\ acc' = [NoOut EXCEPT ![c] =
              <<Fprintf("%s already registered\n", <<cmd[c].nick>>)>>]
         /\ users' = users
    ]_vars

\* C12 witness: a connection registered under one nickname has just asked for the
\* nickname of another registered connection and been turned down, keeping its own.
C12_Witness ==
  \E d \in DOMAIN users \ {ev.by} :
    /\ ev.op = "nick"
    /\ ev.by \in DOMAIN users
    /\ users[ev.by] # users[d]
    /\ acc[ev.by] = <<Fprintf("%s already registered\n", <<users[d]>>)>>
    /\ \A x \in Conns \ {ev.by} : acc[x] = <<>>

\* C13: when the session of a connection that holds a nickname ends, every peer that
\* stays registered from the end of the scan loop until the entry is deleted has been
\* sent "<nickname> left the chat" exactly once by then, and the entry is not in the
\* registry once the handler has returned.
C13_DepartureExactlyOnce ==
  \A c \in Conns :
    /\ (pc[c] = "del_cs" /\ held[c] # <<>>) =>
         \A d \in stay[c] : leftCount[c][d] = 1
    /\ (pc[c] = "closed" /\ held[c] # <<>>) => Lookup(users, c) = <<>>

\* The at-most-once part of C13 alone: no peer is sent the departure line of one
\* connection twice.
DepartureAtMostOnce ==
  \A c, d \in Conns : leftCount[c][d] <= 1

(***************************************************************************)
(* handleUserCommands over a wider set of lines                            *)
(***************************************************************************)
\* Lines that exercise the switch of handleUserCommands: each command alone, with
\* too few and with extra tokens, with surrounding and doubled spaces, in lower
\* case, with a longer first token, lines that are no command, and a /MSG whose
\* recipient list names a nickname twice.
DispatchLines ==
  { LIST,
    LIST \o <<" ", "x">>,
    <<" ">> \o LIST \o <<" ">>,
    LIST \o <<"x">>,
    <<"/", "l", "i", "s", "t">>,
    NICK,
    NICK \o <<" ">>,
    NICK \o <<" ", "a">>,
    NICK \o <<" ", "a", " ", "b">>,
    NICK \o <<" ", "b", " ">>,
    NICK \o <<" ", " ", "a">>,
    NICK \o <<"a">>,
    MSG,
    MSG \o <<" ", "a">>,
    MSG \o <<" ", "*", " ", "h">>,
    MSG \o <<" ", "a", " ", "h", " ", "h">>,
    MSG \o <<" ", "a", ",", "a", " ", "h">>,
    MSG \o <<" ", " ", "h">>,
    <<>>,
    <<"h">> }

\* The connections that send them.
DispatchConns == {"c1", "c2"}

NextDispatch ==
  \E c \in DispatchConns :
    \/ \E line \in DispatchLines :
         \/ ListCommand(c, line)
         \/ NickCommand(c, line)
         \/ MsgCommand(c, line)
         \/ InvalidCommand(c, line)
    \/ Lock(c)
    \/ ListBegin(c)
    \/ NickBegin(c)
    \/ SendAllBegin(c)
    \/ SendToBegin(c)
    \/ WriteNext(c)
    \/ ListCS(c)
    \/ NickCS(c)
    \/ SendAllCS(c)
    \/ SendToCS(c)
    \/ MapFault(c, "msg")

SpecDispatch == Init /\ [][NextDispatch]_vars

\* A line without its leading and trailing spaces.
Stripped(s) ==
  LET solid == {k \in 1..Len(s) : s[k] # " "}
  IN IF solid = {}
     THEN <<>>
     ELSE SubSeq(s, CHOOSE i \in solid : \A k \in solid : i <= k,
                    CHOOSE j \in solid : \A k \in solid : j >= k)

\* The stripped line cut at its first two spaces into at most three tokens.
Tokens(s) ==
  LET t == Stripped(s)
      spaces == {k \in 1..Len(t) : t[k] = " "}
      first == CHOOSE p \in spaces : \A k \in spaces : p <= k
      second == CHOOSE q \in spaces \ {first} : \A k \in spaces \ {first} : q <= k
  IN IF spaces = {} THEN <<t>>
     ELSE IF spaces = {first} THEN <<SubSeq(t, 1, first - 1), SubSeq(t, first + 1, Len(t))>>
     ELSE <<SubSeq(t, 1, first - 1), SubSeq(t, first + 1, second - 1),
            SubSeq(t, second + 1, Len(t))>>

ValidationMessages ==
  { "Nickname must be between 1 and 10 characters",
    "Nickname must start with a letter",
    "Nickname can contain only letters, numbers, and underscores" }

\* C14: a line is handed to handleListCommand exactly when its first token is /LIST,
\* to handleNicknameCommand with its second token exactly when its first token is
\* /NICK and it has at least two tokens, and to handleMessageCommand with its second
\* and third token exactly when its first token is /MSG and it has three tokens;
\* every other line writes only "Invalid command" to its sender and changes nothing.
C14_DispatchByTokenAndArity ==
  [][\A c \in Conns :
       (ev'.by = c /\ ev'.op \in {"command", "msg"} /\ ev'.access # "fault") =>
         LET t == Tokens(ev'.line)
         IN CASE t[1] = LIST ->
                   /\ pc'[c] = "list_lock"
                   /\ out' = NoOut
                   /\ UNCHANGED <<users, mutex, cmd>>
              [] t[1] = NICK /\ Len(t) >= 2 ->
                   /\ \/ /\ pc'[c] = "nick_lock"
                         /\ cmd'[c].nick = t[2]
                         /\ out' = NoOut
                      \/ /\ \E m \in ValidationMessages :
                              out' = [NoOut EXCEPT ![c] = <<Fprintln(m, <<>>)>>]
                         /\ UNCHANGED <<pc, cmd>>
                   /\ UNCHANGED <<users, mutex>>
              [] t[1] = MSG /\ Len(t) >= 3 ->
                   /\ \/ /\ pc'[c] \in {"sendall_lock", "sendto_lock"}
                         /\ cmd'[c].recipients = Split(t[2], ",")
                         /\ cmd'[c].message = t[3]
                         /\ out' = NoOut
                      \/ /\ out' = [NoOut EXCEPT ![c] =
                              <<Fprintln("You must register a nickname before you can send a message", <<>>)>>]
                         /\ UNCHANGED <<pc, cmd>>
                   /\ UNCHANGED <<users, mutex>>
              [] OTHER ->
                   /\ out' = [NoOut EXCEPT ![c] = <<Fprintln("Invalid command", <<>>)>>]
                   /\ UNCHANGED <<users, mutex, pc, cmd, iter>>
    ]_vars

\* C14 witness: with a nickname registered, a /MSG line of two tokens has just been
\* answered with "Invalid command" only.
C14_Witness ==
  /\ ev.op = "command"
  /\ Tokens(ev.line) = <<MSG, <<"a">>>>
  /\ out = [NoOut EXCEPT ![ev.by] = <<Fprintln("Invalid command", <<>>)>>]
  /\ users # <<>>

(***************************************************************************)
(* validateNickname over candidate nicknames                               *)
(***************************************************************************)
\* Characters, each as its UTF-8 bytes: ASCII letters, a digit, the underscore, the
\* space, the hyphen, and three characters of more than one byte: the letters
\* U+00E9 and U+05D0 and the currency sign U+20AC.
Characters ==
  { <<"a">>, <<"Z">>, <<"1">>, <<"_">>, <<" ">>, <<"-">>,
    <<"C3", "A9">>, <<"D7", "90">>, <<"E2", "82", "AC">> }

\* The characters that are letters.
LetterCharacters == {<<"a">>, <<"Z">>, <<"C3", "A9">>, <<"D7", "90">>}

\* The characters of the class [a-zA-Z0-9_].
WordCharacters == {<<"a">>, <<"Z">>, <<"1">>, <<"_">>}

MaxChars == 3

\* The character ch n times.
Repeat(ch, n) == [i \in 1..n |-> ch]

\* Candidate nicknames as sequences of characters: every one of up to MaxChars
\* characters, and longer ones around the length limit.
Candidates ==
  UNION {[1..n -> Characters] : n \in 0..MaxChars} \cup
  { Repeat(<<"a">>, MaxNickLen),
    Repeat(<<"a">>, MaxNickLen + 1),
    <<<<" ">>>> \o Repeat(<<"a">>, MaxNickLen) \o <<<<" ">>>>,
    Repeat(<<"a">>, MaxNickLen - 1) \o <<<<"-">>>>,
    <<<<"1">>>> \o Repeat(<<"a">>, MaxNickLen),
    Repeat(<<"C3", "A9">>, 5),
    Repeat(<<"C3", "A9">>, 6) }

\* The bytes of a sequence of characters.
RECURSIVE Bytes(_)
Bytes(chars) == IF chars = <<>> THEN <<>> ELSE Head(chars) \o Bytes(Tail(chars))

\* validateNickname called through handleNicknameCommand with any string.
NicknameCall(c, desiredNickname) ==
  /\ crashed = NoConn
  /\ pc[c] = "scan"
  /\ handleNicknameCommand(c, desiredNickname)
  /\ ev' = Command(c, "nickcall", "none", desiredNickname)
  /\ Delivered
  /\ Ghosts(c)
  /\ UNCHANGED <<users, mutex, iter, crashed, stalled>>

NextValidate == \E nickname \in Candidates : NicknameCall("c1", Bytes(nickname))

SpecValidate == Init /\ [][NextValidate]_vars

\* A sequence of characters without its leading and trailing spaces.
StrippedChars(chars) ==
  LET solid == {k \in 1..Len(chars) : chars[k] # <<" ">>}
  IN IF solid = {}
     THEN <<>>
     ELSE SubSeq(chars, CHOOSE i \in solid : \A k \in solid : i <= k,
                        CHOOSE j \in solid : \A k \in solid : j >= k)

\* The verdict the rules give, taken in the order length, first letter, character
\* class: "" for acceptance, the reason of the first failing rule otherwise.
RuleVerdict(chars) ==
  LET t == StrippedChars(chars)
  IN IF Len(t) < 1 \/ Len(t) > 10
     THEN "Nickname must be between 1 and 10 characters"
     ELSE IF t[1] \notin LetterCharacters
     THEN "Nickname must start with a letter"
     ELSE IF \E i \in 1..Len(t) : t[i] \notin WordCharacters
     THEN "Nickname can contain only letters, numbers, and underscores"
     ELSE ""

\* The verdict a call has just returned, as the handler shows it.
ShownVerdict ==
  IF pc[ev.by] = "nick_lock" /\ out = NoOut THEN {""}
  ELSE {m \in ValidationMessages : out = [NoOut EXCEPT ![ev.by] = <<Fprintln(m, <<>>)>>]}

\* C15: validateNickname returns exactly one verdict for every string: acceptance
\* exactly when, its surrounding spaces trimmed, the string has 1 to 10 characters,
\* starts with a letter and has only letters, digits and underscores; otherwise the
\* reason of the first rule that fails, in the order length, first letter, character
\* class.
C15_ValidationVerdict ==
  \A nickname \in Candidates :
    (ev.op = "nickcall" /\ ev.line = Bytes(nickname)) =>
      ShownVerdict = {RuleVerdict(nickname)}

\* The acceptance part of C15 alone: a string is accepted exactly when the rules
\* accept it.
ValidationAcceptance ==
  \A nickname \in Candidates :
    (ev.op = "nickcall" /\ ev.line = Bytes(nickname)) =>
      (("" \in ShownVerdict) <=> (RuleVerdict(nickname) = ""))

\* C15 restricted to ASCII strings, where a character is one byte.
ValidationVerdictAscii ==
  \A nickname \in Candidates :
    (/\ ev.op = "nickcall"
     /\ ev.line = Bytes(nickname)
     /\ \A i \in 1..Len(nickname) : Len(nickname[i]) = 1) =>
      ShownVerdict = {RuleVerdict(nickname)}

\* C16: while the listing line of a connection is open (its "Current users: " is
\* written, its end of line is not), no other goroutine writes a chat line or a
\* notice to that connection.
C16_ListingNotInterleaved ==
  \A a \in Conns :
    (pc[a] = "list_wr" /\ todo # <<>> /\ ev.by # a) => out[a] = <<>>

(***************************************************************************)
(* Peers that stop reading                                                 *)
(***************************************************************************)
\* The nickname each connection asks for.
StallNick == [c \in Conns |-> CASE c = "c1" -> <<"a">> [] c = "c2" -> <<"b">> [] OTHER -> <<"c">>]

\* The lines a connection sends: /LIST, its /NICK, a /MSG to all and a /MSG to a list.
StallLines(c) ==
  { LIST,
    NICK \o <<" ">> \o StallNick[c],
    MSG \o <<" ", "*", " ", "h">>,
    MSG \o <<" ", "a", ",", "b", " ", "h">> }

NextStall ==
  \E c \in Conns :
    \/ \E line \in StallLines(c) :
         \/ ListCommand(c, line)
         \/ NickCommand(c, line)
         \/ MsgCommand(c, line)
    \/ Lock(c)
    \/ ListBegin(c)
    \/ NickBegin(c)
    \/ SendAllBegin(c)
    \/ SendToBegin(c)
    \/ WriteNext(c)
    \/ ListCS(c)
    \/ NickCS(c)
    \/ SendAllCS(c)
    \/ SendToCS(c)
    \/ ReadError(c)
    \/ DeleteCS(c)
    \/ Close(c)
    \/ MapFault(c, "msg")
    \/ Stall(c)
    \/ Drain(c)

SpecStall == Init /\ [][NextStall]_vars

\* What a goroutine does between Lock and Unlock.
CriticalSection(c) ==
  \/ ListBegin(c) \/ NickBegin(c) \/ SendAllBegin(c) \/ SendToBegin(c)
  \/ WriteNext(c)
  \/ ListCS(c) \/ NickCS(c) \/ SendAllCS(c) \/ SendToCS(c) \/ DeleteCS(c)

\* C17: a goroutine that holds the mutex, its own connection not stalled, can
\* always run its critical section to the Unlock: it does not wait for another
\* connection, such as for a peer to take a write.
C17_CriticalSectionsDoNotWait ==
  \A c \in Conns :
    (crashed = NoConn /\ mutex = c /\ c \notin stalled) => ENABLED CriticalSection(c)

(***************************************************************************)
(* Nickname changes among three nicknames                                  *)
(***************************************************************************)
RenameLines ==
  { NICK \o <<" ", "a">>,
    NICK \o <<" ", "b">>,
    NICK \o <<" ", "c">> }

NextRename ==
  \E c \in Conns :
    \/ \E line \in RenameLines : NickCommand(c, line)
    \/ Lock(c)
    \/ NickBegin(c)
    \/ WriteNext(c)
    \/ NickCS(c)
    \/ ReadError(c)
    \/ DeleteCS(c)
    \/ Close(c)

SpecRename == Init /\ [][NextRename]_vars

\* C18: when a connection registered as 'old' asks for a valid nickname 'new' that
\* nobody holds, its entry becomes 'new' and the other entries stay as they are, so
\* that nobody holds 'old'; it is sent "You changed your nickname from old to new"
\* and every other registered connection, and nobody else, is sent "old changed
\* nickname to new"; and a /NICK of a connection for a nickname nobody holds, a freed
\* one included, gives it that nickname.
C18_NicknameChange ==
  [][\A c \in Conns :
       /\ (/\ NickStep(c)
           /\ c \in DOMAIN users
           /\ users[c] # cmd[c].nick
           /\ Holders(users, cmd[c].nick) = {}) =>
            LET old == users[c]
                new == cmd[c].nick
            IN /\ users' = [users EXCEPT ![c] = new]
               /\ Holders(users', old) = {}
               /\ acc'[c] =
                    <<Fprintf("You changed your nickname from %s to %s\n", <<old, new>>)>>
               /\ \A d \in DOMAIN users \ {c} :
                    acc'[d] = <<Fprintln("%s changed nickname to %s", <<old, new>>)>>
               /\ \A d \in Conns \ DOMAIN users : acc'[d] = <<>>
       /\ (NickStep(c) /\ Holders(users, cmd[c].nick) = {}) =>
            Lookup(users', c) = cmd[c].nick
    ]_vars

\* C18 witness: a connection has just changed its nickname from "a" to "b" while
\* another connection is registered and is told so.
C18_Witness ==
  /\ ev.op = "nick"
  /\ Lookup(users, ev.by) = <<"b">>
  /\ acc[ev.by] =
       <<Fprintf("You changed your nickname from %s to %s\n", <<<<"a">>, <<"b">>>>)>>
  /\ \E d \in DOMAIN users \ {ev.by} :
       acc[d] = <<Fprintln("%s changed nickname to %s", <<<<"a">>, <<"b">>>>)>>

\* C19: one /MSG writes its chat line to each connection at most once, also when
\* the recipient list names a nickname more than once.
C19_DeliveredAtMostOnce ==
  [][\A c \in Conns :
       SendStep(c) =>
         \A d \in Conns :
           Cardinality({i \in 1..Len(acc'[d]) :
                          acc'[d][i] = ChatLine(cmd[c].sender, cmd[c].message)}) <= 1
    ]_vars

\* A step of c's goroutine other than taking up a line or ending the scan loop.
Step(c) == Lock(c) \/ CriticalSection(c) \/ LeaveNext(c) \/ LeaveVisit(c) \/ Close(c)

\* Where the goroutine that holds the mutex stands.
HolderPoints == {"list_cs", "nick_cs", "sendall_cs", "sendto_cs", "del_cs"} \cup WritePoints

\* The handler of c can take its next step, or waits at Lock for a holder that can
\* run its critical section to the Unlock.
CanProceed(c) ==
  \/ ENABLED Step(c)
  \/ /\ pc[c] \in LockPoints
     /\ mutex \in Conns \ {c}
     /\ ENABLED CriticalSection(mutex)

\* C20: the mutex is held only inside a critical section, so it is released on every
\* way out of a handler and is never asked for by the goroutine that holds it; and
\* every command and session end under way can always go on, either by a step of its
\* own or, waiting at Lock, after the holder has run to its Unlock: there is no
\* deadlock, and under fair scheduling each of them finishes.
C20_NoDeadlock ==
  \A c \in Conns :
    /\ mutex = c => pc[c] \in HolderPoints
    /\ pc[c] \notin {"scan", "closed"} => CanProceed(c)

\* The first part of C20 alone, with the converse: the mutex is held exactly by the
\* goroutine inside a critical section.
LockDiscipline ==
  \A c \in Conns : (mutex = c) <=> (pc[c] \in HolderPoints)

\* C20 as long as the runtime has not aborted the process.
ProgressUnlessAborted ==
  \A c \in Conns :
    (crashed = NoConn /\ pc[c] \notin {"scan", "closed"}) => CanProceed(c)

\* C21: no step writes a line to a connection whose entry has been deleted, its
\* handler returning or returned; and every line a step writes to a connection other
\* than that of the goroutine taking the step (a chat line or a notice) goes to a
\* connection that is registered.
C21_NoWriteToFinishedSession ==
  \A d \in Conns :
    out[d] # <<>> =>
      /\ pc[d] \notin {"returning", "closed"}
      /\ d = ev.by \/ d \in DOMAIN users

\* C21 for the writes made with the mutex held: the fan-out of /MSG and the
\* broadcasts of /NICK.
LockedWritesToRegistered ==
  \A d \in Conns :
    (ev.held /\ out[d] # <<>>) =>
      /\ pc[d] \notin {"returning", "closed"}
      /\ d = ev.by \/ d \in DOMAIN users

====
